---- MODULE Spec2Model ----
(***************************************************************************)
(* whisper_bridge.py: a command-line shim that loads a whisper model, runs *)
(* transcription on one input file and writes the segments as JSON.        *)
(*                                                                         *)
(* The model follows main() statement by statement.  The library calls     *)
(* (imports, os.path.getsize, whisper.load_model, model.transcribe) are    *)
(* external: each either returns, raises an Exception, or is interrupted   *)
(* by a BaseException that `except Exception` does not catch.  The file    *)
(* system is a map from paths to files; a file holds the pieces that were  *)
(* written to it, so that a truncating open, a partial json.dump and a     *)
(* complete json.dump are told apart.                                      *)
(***************************************************************************)
EXTENDS Integers, Sequences, FiniteSets, TLC

VARIABLES
    pc,              \* position in the script
    argv,            \* the command line: each flag <<>> (omitted) or <<value>>
    args,            \* argparse namespace (line 21)
    fs,              \* path -> file
    fs0,             \* the file system when the process started
    existsResult,    \* <<>> or <<b>>: what os.path.exists returned (line 38)
    model,           \* <<>> or <<handle>>: what load_model returned (line 53)
    result,          \* <<>> or <<r>>: what transcribe returned (line 58)
    segments,        \* the list built by the loop of lines 61-67
    exc,             \* <<>> or <<message>>: the exception caught at line 76
    ret,             \* <<>> or <<n>>: the value main() returned
    exitStatus,      \* <<>> or <<n>>: the status the process ended with
    uncaught,        \* <<>> or <<message>>: an exception that left main()
    log,             \* logger.error records
    loadCalls,       \* calls of whisper.load_model
    transcribeCalls, \* calls of model.transcribe
    writes           \* writes of a document to a path, in order

vars == <<pc, argv, args, fs, fs0, existsResult, model, result, segments, exc,
          ret, exitStatus, uncaught, log, loadCalls, transcribeCalls, writes>>

-----------------------------------------------------------------------------
(* Bounds and input domains *)

MaxSegs == 2

Paths == {"in.wav", "out.json"}

ModelNames == {"base"}

Opt(S) == {<<>>} \cup {<<x>> : x \in S}

\* A value json cannot serialise (bytes, a tensor, ...).
Unserialisable == "<bytes>"

\* float("nan"): json.dump writes it as the token NaN.
NaN == "NaN"

\* Segments the library may return: dictionaries over text/start/end and more.
SegPool ==
    { [id |-> "0", text |-> " Hello", start |-> "0.0", end |-> "1.5"],
      [text |-> " world", start |-> "1.5", end |-> "3.0"],
      [id |-> "1", start |-> "0.0", end |-> "1.5"],
      [id |-> "1", text |-> " Hello", end |-> "1.5"],
      [id |-> "1", text |-> " Hello", start |-> "0.0"],
      [text |-> Unserialisable, start |-> "0.0", end |-> "1.5"],
      [text |-> " Hello", start |-> NaN, end |-> "1.5"] }

SegLists == UNION {[1..n -> SegPool] : n \in 0..MaxSegs}

\* What model.transcribe may return: a dictionary with or without "segments".
Results ==
    {[text |-> "Hello world", language |-> "en"]}
        \cup {[text |-> "Hello world", segments |-> s] : s \in SegLists}

\* Outcomes of a call into a library.
LibOutcomes == {"return", "raise", "interrupt"}

NoArgs == [input |-> "", output |-> "", model |-> ""]

-----------------------------------------------------------------------------
(* Files *)

RawAudio == [raw |-> "RIFF"]

File(data) == [exists |-> TRUE, data |-> data]

NoFile == [exists |-> FALSE, data |-> <<>>]

\* What a completed json.dump(doc, f, indent=2) leaves in the file.
Complete(doc) == [doc |-> doc, complete |-> TRUE]

\* What json.dump leaves when it stops after k whole segments.
Partial(doc, k) ==
    [doc |-> [doc EXCEPT !.segments = SubSeq(doc.segments, 1, k)],
     complete |-> FALSE]


\* Mutant: the file is opened in append mode, what it held is kept.
OpenAppend(files, path) == [files EXCEPT ![path] = File(files[path].data)]

\* open(path, "w"): the file is created, or truncated when it exists.
OpenTruncate(files, path) == [files EXCEPT ![path] = File(<<>>)]

\* f.write of one piece: appended to what the file holds.
WritePiece(files, path, piece) ==
    [files EXCEPT ![path] = File(Append(files[path].data, piece))]

-----------------------------------------------------------------------------
(* Documents *)

\* Mutant: the missing-input document carries an error segment.
MissingDocWithSegment(input) ==
    [error |-> "Input file does not exist: " \o input,
     segments |-> << [text |-> "Input file does not exist: " \o input,
                      start_time |-> "0", end_time |-> "0"] >>]

\* Lines 41-44.
MissingDoc(input) ==
    [error |-> "Input file does not exist: " \o input, segments |-> <<>>]

\* Mutant: the error document carries no segment.
ErrorDocEmptySegments(msg) == [error |-> msg, segments |-> <<>>]

\* Lines 82-89.
ErrorDoc(msg) ==
    [error |-> msg,
     segments |-> << [text |-> "Error transcribing audio: " \o msg,
                      start_time |-> "0", end_time |-> "0"] >>]

\* Line 71.
SuccessDoc(segs) == [segments |-> segs]

\* str(KeyError(key))
KeyErrorMsg(key) == "'" \o key \o "'"

\* Mutant: start and end are exchanged.
MapSegmentSwapped(seg) ==
    [text |-> seg["text"], start_time |-> seg["end"], end_time |-> seg["start"]]

\* Lines 63-67: the dictionary appended for one library segment.
MapSegment(seg) ==
    [text |-> seg["text"], start_time |-> seg["start"], end_time |-> seg["end"]]

\* The first of segment["text"], segment["start"], segment["end"] that raises
\* KeyError, in the order lines 64-66 evaluate them; "" when none does.
FirstMissing(seg) ==
    IF "text" \notin DOMAIN seg THEN "text"
    ELSE IF "start" \notin DOMAIN seg THEN "start"
    ELSE IF "end" \notin DOMAIN seg THEN "end"
    ELSE ""

\* Lines 61-67: the loop over result["segments"], from index i with acc built.
RECURSIVE MapLoop(_, _, _)
MapLoop(libsegs, i, acc) ==
    IF i > Len(libsegs) THEN [segments |-> acc, raised |-> <<>>]
    ELSE IF FirstMissing(libsegs[i]) # ""
         THEN [segments |-> acc,
               raised |-> <<KeyErrorMsg(FirstMissing(libsegs[i]))>>]
         ELSE MapLoop(libsegs, i + 1, Append(acc, MapSegment(libsegs[i])))

\* Lines 61-67 on the dictionary transcribe returned.
MapResult(r) ==
    IF "segments" \notin DOMAIN r
    THEN [segments |-> <<>>, raised |-> <<KeyErrorMsg("segments")>>]
    ELSE MapLoop(r.segments, 1, <<>>)

-----------------------------------------------------------------------------
(* json.dump *)

SerialisableSeg(seg) ==
    \A k \in DOMAIN seg : seg[k] # Unserialisable

\* Index of the first segment json.dump cannot encode; 0 when it encodes all.
FirstBad(segs) ==
    IF \A i \in 1..Len(segs) : SerialisableSeg(segs[i]) THEN 0
    ELSE CHOOSE i \in 1..Len(segs) :
            /\ ~SerialisableSeg(segs[i])
            /\ \A j \in 1..(i - 1) : SerialisableSeg(segs[j])

\* with open(path, "w") as f: json.dump(doc, f, indent=2)
\* Every way the statement can end: the files it leaves and what it raised.
\*  - open raises (the path cannot be opened for writing): nothing changes;
\*  - an OSError while writing or closing: the file was truncated and holds
\*    nothing or a prefix of the document;
\*  - json.dump meets a value it cannot encode: TypeError, and the chunks
\*    written before it stay in the file;
\*  - otherwise the whole document is in the file.
WriteOutcomes(files, path, doc) ==
    LET opened == OpenTruncate(files, path)
        bad == FirstBad(doc.segments)
    IN  { [fs |-> files,
           raised |-> <<"[Errno 13] Permission denied: '" \o path \o "'">>] }
        \cup
        { [fs |-> opened, raised |-> <<"[Errno 28] No space left on device">>] }
        \cup
        { [fs |-> WritePiece(opened, path, Partial(doc, k)),
           raised |-> <<"[Errno 28] No space left on device">>]
            : k \in 0..(IF bad = 0 THEN Len(doc.segments) ELSE bad - 1) }
        \cup
        ( IF bad = 0
          THEN { [fs |-> WritePiece(opened, path, Complete(doc)),
                  raised |-> <<>>] }
          ELSE { [fs |-> WritePiece(opened, path, Partial(doc, bad - 1)),
                  raised |-> <<"Object of type bytes is not JSON serializable">>] } )

\* The record kept of one write.
WriteRecord(path, doc, o) ==
    [path |-> path, doc |-> doc, raised |-> o.raised, left |-> o.fs[path].data]

-----------------------------------------------------------------------------
(* main() *)

\* Mutant: another default model.
DefaultModelBase == "base"

\* Line 20.
DefaultModel == "tiny"

Init ==
    /\ pc = "parse"
    /\ argv \in [input : Opt(Paths), output : Opt(Paths), model : Opt(ModelNames)]
    /\ args = NoArgs
    /\ fs \in [Paths -> {NoFile, File(<<RawAudio>>)}]
    /\ fs0 = fs
    /\ existsResult = <<>>
    /\ model = <<>>
    /\ result = <<>>
    /\ segments = <<>>
    /\ exc = <<>>
    /\ ret = <<>>
    /\ exitStatus = <<>>
    /\ uncaught = <<>>
    /\ log = <<>>
    /\ loadCalls = <<>>
    /\ transcribeCalls = <<>>
    /\ writes = <<>>

\* Lines 17-21: --input and --output are required (argparse exits with 2
\* when one is missing), --model defaults to "tiny".
ParseArgs ==
    /\ pc = "parse"
    /\ IF argv.input = <<>> \/ argv.output = <<>>
       THEN /\ pc' = "done"
            /\ exitStatus' = <<2>>
            /\ UNCHANGED args
       ELSE /\ pc' = "import_numpy"
            /\ args' = [input |-> argv.input[1],
                        output |-> argv.output[1],
                        model |-> IF argv.model = <<>> THEN DefaultModel
                                  ELSE argv.model[1]]
            /\ UNCHANGED exitStatus
    /\ UNCHANGED <<argv, fs, fs0, existsResult, model, result, segments, exc,
                   ret, uncaught, log, loadCalls, transcribeCalls, writes>>

\* A BaseException that is not an Exception (KeyboardInterrupt) passes the
\* handler of line 76 and ends the process; the interpreter dies of SIGINT.
Interrupted ==
    /\ pc' = "done"
    /\ uncaught' = <<"KeyboardInterrupt">>
    /\ exitStatus' = <<130>>
    /\ UNCHANGED exc

\* An Exception raised inside the try block: control goes to line 76.
Raised(msg) ==
    /\ pc' = "except"
    /\ exc' = <<msg>>
    /\ UNCHANGED <<uncaught, exitStatus>>

\* The statement completed: control goes on to `next`.
Goto(next) ==
    /\ pc' = next
    /\ UNCHANGED <<exc, uncaught, exitStatus>>

\* An import statement, followed by the statement at `next`.
ImportStep(next, name) ==
    \E o \in LibOutcomes :
        CASE o = "return" -> Goto(next)
          [] o = "raise" -> Raised("No module named '" \o name \o "'")
          [] o = "interrupt" -> Interrupted

\* Lines 27-28.
ImportNumpy ==
    /\ pc = "import_numpy"
    /\ ImportStep("import_torch", "numpy")
    /\ UNCHANGED <<argv, args, fs, fs0, existsResult, model, result, segments,
                   ret, log, loadCalls, transcribeCalls, writes>>

\* Lines 31-32.
ImportTorch ==
    /\ pc = "import_torch"
    /\ ImportStep("import_whisper", "torch")
    /\ UNCHANGED <<argv, args, fs, fs0, existsResult, model, result, segments,
                   ret, log, loadCalls, transcribeCalls, writes>>

\* Line 35.
ImportWhisper ==
    /\ pc = "import_whisper"
    /\ ImportStep("exists", "whisper")
    /\ UNCHANGED <<argv, args, fs, fs0, existsResult, model, result, segments,
                   ret, log, loadCalls, transcribeCalls, writes>>

\* Mutant: the result of the check is logged and not acted upon.
CheckExistsNoBranch ==
    /\ pc = "exists"
    /\ existsResult' = <<fs[args.input].exists>>
    /\ pc' = "getsize"
    /\ log' = IF fs[args.input].exists THEN log
              ELSE Append(log, "Input file does not exist: " \o args.input)
    /\ UNCHANGED <<argv, args, fs, fs0, model, result, segments, exc, ret,
                   exitStatus, uncaught, loadCalls, transcribeCalls, writes>>

\* Lines 38-39: os.path.exists(args.input), and the error logged when it is
\* False.
CheckExists ==
    /\ pc = "exists"
    /\ existsResult' = <<fs[args.input].exists>>
    /\ IF fs[args.input].exists
       THEN /\ pc' = "getsize"
            /\ UNCHANGED log
       ELSE /\ pc' = "write_missing"
            /\ log' = Append(log, "Input file does not exist: " \o args.input)
    /\ UNCHANGED <<argv, args, fs, fs0, model, result, segments, exc, ret,
                   exitStatus, uncaught, loadCalls, transcribeCalls, writes>>

\* Mutant: a failure of the write is swallowed and main returns 1 all the same.
WriteMissingIgnoreError ==
    /\ pc = "write_missing"
    /\ \E o \in WriteOutcomes(fs, args.output, MissingDoc(args.input)) :
         /\ fs' = o.fs
         /\ writes' = Append(writes,
                WriteRecord(args.output, MissingDoc(args.input), o))
    /\ pc' = "returned"
    /\ ret' = <<1>>
    /\ UNCHANGED <<argv, args, fs0, existsResult, model, result, segments, exc,
                   exitStatus, uncaught, log, loadCalls, transcribeCalls>>

\* Lines 40-45: the missing-input document is written and main returns 1; a
\* write that raises goes to the handler of line 76.
WriteMissing ==
    /\ pc = "write_missing"
    /\ \E o \in WriteOutcomes(fs, args.output, MissingDoc(args.input)) :
         /\ fs' = o.fs
         /\ writes' = Append(writes,
                WriteRecord(args.output, MissingDoc(args.input), o))
         /\ IF o.raised = <<>>
            THEN /\ pc' = "returned"
                 /\ ret' = <<1>>
                 /\ UNCHANGED exc
            ELSE /\ pc' = "except"
                 /\ exc' = o.raised
                 /\ UNCHANGED ret
    /\ UNCHANGED <<argv, args, fs0, existsResult, model, result, segments,
                   exitStatus, uncaught, log, loadCalls, transcribeCalls>>

\* Lines 48-49: os.path.getsize(args.input) returns or raises OSError.
GetSize ==
    /\ pc = "getsize"
    /\ \E o \in {"return", "raise"} :
         CASE o = "return" -> Goto("load")
           [] o = "raise" ->
                Raised("[Errno 13] Permission denied: '" \o args.input \o "'")
    /\ UNCHANGED <<argv, args, fs, fs0, existsResult, model, result, segments,
                   ret, log, loadCalls, transcribeCalls, writes>>

\* Mutant: a load that raises is tried once more.
LoadModelRetry ==
    /\ pc = "load"
    /\ loadCalls' = Append(loadCalls, [name |-> args.model, device |-> "cpu"])
    /\ \E o \in LibOutcomes :
         CASE o = "return" ->
                /\ model' = <<[name |-> args.model, device |-> "cpu"]>>
                /\ Goto("transcribe")
           [] o = "raise" ->
                /\ pc' = IF loadCalls = <<>> THEN "load" ELSE "except"
                /\ exc' = <<"Model " \o args.model \o " not found">>
                /\ UNCHANGED <<model, uncaught, exitStatus>>
           [] o = "interrupt" ->
                /\ Interrupted
                /\ UNCHANGED model
    /\ UNCHANGED <<argv, args, fs, fs0, existsResult, result, segments, ret,
                   log, transcribeCalls, writes>>

\* Lines 52-54: whisper.load_model(args.model, device="cpu").
LoadModel ==
    /\ pc = "load"
    /\ loadCalls' = Append(loadCalls, [name |-> args.model, device |-> "cpu"])
    /\ \E o \in LibOutcomes :
         CASE o = "return" ->
                /\ model' = <<[name |-> args.model, device |-> "cpu"]>>
                /\ Goto("transcribe")
           [] o = "raise" ->
                /\ Raised("Model " \o args.model \o " not found")
                /\ UNCHANGED model
           [] o = "interrupt" ->
                /\ Interrupted
                /\ UNCHANGED model
    /\ UNCHANGED <<argv, args, fs, fs0, existsResult, result, segments, ret,
                   log, transcribeCalls, writes>>

\* Lines 57-58: model.transcribe(args.input, fp16=False) on the loaded model.
Transcribe ==
    /\ pc = "transcribe"
    /\ transcribeCalls' =
         Append(transcribeCalls, [path |-> args.input, fp16 |-> FALSE])
    /\ \/ \E r \in Results :
            /\ result' = <<r>>
            /\ Goto("map")
       \/ /\ Raised("Failed to load audio: " \o args.input)
          /\ UNCHANGED result
       \/ /\ Interrupted
          /\ UNCHANGED result
    /\ UNCHANGED <<argv, args, fs, fs0, existsResult, model, segments, ret,
                   log, loadCalls, writes>>

\* Lines 61-67: the segments list is built; a missing key raises KeyError.
MapSegments ==
    /\ pc = "map"
    /\ LET m == MapResult(result[1])
       IN  /\ segments' = m.segments
           /\ IF m.raised = <<>>
              THEN Goto("write")
              ELSE Raised(m.raised[1])
    /\ UNCHANGED <<argv, args, fs, fs0, existsResult, model, result, ret, log,
                   loadCalls, transcribeCalls, writes>>

\* Mutant: the success document is written to the input path.
WriteSuccessToInput ==
    /\ pc = "write"
    /\ \E o \in WriteOutcomes(fs, args.input, SuccessDoc(segments)) :
         /\ fs' = o.fs
         /\ writes' = Append(writes,
                WriteRecord(args.input, SuccessDoc(segments), o))
         /\ IF o.raised = <<>>
            THEN /\ pc' = "returned"
                 /\ ret' = <<0>>
                 /\ UNCHANGED exc
            ELSE /\ pc' = "except"
                 /\ exc' = o.raised
                 /\ UNCHANGED ret
    /\ UNCHANGED <<argv, args, fs0, existsResult, model, result, segments,
                   exitStatus, uncaught, log, loadCalls, transcribeCalls>>

\* Lines 70-74 and 92: the success document is written and main returns 0; a
\* write that raises goes to the handler of line 76.
WriteSuccess ==
    /\ pc = "write"
    /\ \E o \in WriteOutcomes(fs, args.output, SuccessDoc(segments)) :
         /\ fs' = o.fs
         /\ writes' = Append(writes,
                WriteRecord(args.output, SuccessDoc(segments), o))
         /\ IF o.raised = <<>>
            THEN /\ pc' = "returned"
                 /\ ret' = <<0>>
                 /\ UNCHANGED exc
            ELSE /\ pc' = "except"
                 /\ exc' = o.raised
                 /\ UNCHANGED ret
    /\ UNCHANGED <<argv, args, fs0, existsResult, model, result, segments,
                   exitStatus, uncaught, log, loadCalls, transcribeCalls>>

\* Mutant: the handler has no return statement and main falls through to
\* the return 0 of line 92.
ExceptHandlerFallThrough ==
    /\ pc = "except"
    /\ log' = log \o <<"Error during transcription: " \o exc[1],
                       "Traceback (most recent call last): " \o exc[1]>>
    /\ \E o \in WriteOutcomes(fs, args.output, ErrorDoc(exc[1])) :
         /\ fs' = o.fs
         /\ writes' = Append(writes,
                WriteRecord(args.output, ErrorDoc(exc[1]), o))
         /\ IF o.raised = <<>>
            THEN /\ pc' = "returned"
                 /\ ret' = <<0>>
                 /\ UNCHANGED <<uncaught, exitStatus>>
            ELSE /\ pc' = "done"
                 /\ uncaught' = o.raised
                 /\ exitStatus' = <<1>>
                 /\ UNCHANGED ret
    /\ UNCHANGED <<argv, args, fs0, existsResult, model, result, segments,
                   exc, loadCalls, transcribeCalls>>

\* Lines 76-90: the error and the traceback are logged, the error document
\* is written and main returns 1.  A write that raises here is caught by
\* nothing: the exception leaves main and the interpreter exits with 1.
ExceptHandler ==
    /\ pc = "except"
    /\ log' = log \o <<"Error during transcription: " \o exc[1],
                       "Traceback (most recent call last): " \o exc[1]>>
    /\ \E o \in WriteOutcomes(fs, args.output, ErrorDoc(exc[1])) :
         /\ fs' = o.fs
         /\ writes' = Append(writes,
                WriteRecord(args.output, ErrorDoc(exc[1]), o))
         /\ IF o.raised = <<>>
            THEN /\ pc' = "returned"
                 /\ ret' = <<1>>
                 /\ UNCHANGED <<uncaught, exitStatus>>
            ELSE /\ pc' = "done"
                 /\ uncaught' = o.raised
                 /\ exitStatus' = <<1>>
                 /\ UNCHANGED ret
    /\ UNCHANGED <<argv, args, fs0, existsResult, model, result, segments,
                   exc, loadCalls, transcribeCalls>>

\* Line 95: sys.exit(main()).
SysExit ==
    /\ pc = "returned"
    /\ pc' = "done"
    /\ exitStatus' = ret
    /\ UNCHANGED <<argv, args, fs, fs0, existsResult, model, result, segments,
                   exc, ret, uncaught, log, loadCalls, transcribeCalls, writes>>

Next ==
    \/ ParseArgs
    \/ ImportNumpy
    \/ ImportTorch
    \/ ImportWhisper
    \/ CheckExists
    \/ WriteMissing
    \/ GetSize
    \/ LoadModel
    \/ Transcribe
    \/ MapSegments
    \/ WriteSuccess
    \/ ExceptHandler
    \/ SysExit

Spec == Init /\ [][Next]_vars

-----------------------------------------------------------------------------
(* Vocabulary of the properties *)

\* main() got past argument parsing.
Parsed == args # NoArgs

\* What the output path holds.
Out == fs[args.output].data

\* The file holds one document, written whole by one json.dump.
OneCompleteDoc(data) ==
    /\ Len(data) = 1
    /\ "complete" \in DOMAIN data[1]
    /\ data[1].complete

HasNaN(segs) ==
    \E i \in 1..Len(segs) : \E k \in DOMAIN segs[i] : segs[i][k] = NaN

\* The file is one JSON object with a `segments` key.
ValidJsonWithSegments(data) ==
    /\ OneCompleteDoc(data)
    /\ "segments" \in DOMAIN data[1].doc
    /\ ~HasNaN(data[1].doc.segments)

\* The run was not cut short by a KeyboardInterrupt.
NotInterrupted == uncaught # <<"KeyboardInterrupt">>

\* The library's dictionary has `segments`, each with text, start and end.
WellFormed(r) ==
    /\ "segments" \in DOMAIN r
    /\ \A i \in 1..Len(r.segments) :
          {"text", "start", "end"} \subseteq DOMAIN r.segments[i]

\* The list the success document is to hold for the library's list.
ExpectedSegments(libsegs) ==
    [i \in 1..Len(libsegs) |->
        [text |-> libsegs[i]["text"],
         start_time |-> libsegs[i]["start"],
         end_time |-> libsegs[i]["end"]]]

\* The documents as the specification words them.
ExpectedMissingDoc ==
    [error |-> "Input file does not exist: " \o args.input, segments |-> <<>>]

ExpectedErrorDoc(msg) ==
    [error |-> msg,
     segments |-> << [text |-> "Error transcribing audio: " \o msg,
                      start_time |-> "0", end_time |-> "0"] >>]

TrySteps ==
    {"import_numpy", "import_torch", "import_whisper", "exists",
     "write_missing", "getsize", "load", "transcribe", "map", "write"}

-----------------------------------------------------------------------------
(* C1 *)

\* C1 as stated: in every run that gets past argument parsing, whatever the
\* steps return or raise (a raising write in the handler included), the
\* output path holds one complete JSON object with a `segments` key when the
\* process ends.  Runs ended by an interrupt are left aside.
C1_Original ==
    (pc = "done" /\ Parsed /\ NotInterrupted) => ValidJsonWithSegments(Out)

\* C1 amended: in every run in which main() returns, the output path holds
\* exactly one document, written whole by one json.dump, with a `segments`
\* key; it is valid JSON except that a non-finite float in a library segment
\* of a successful run is written as the token NaN.
C1_Amended ==
    ret # <<>> =>
        /\ OneCompleteDoc(Out)
        /\ "segments" \in DOMAIN Out[1].doc
        /\ HasNaN(Out[1].doc.segments) =>
              (ret = <<0>> /\ HasNaN(result[1].segments))

\* A write raised, the handler's write completed, and the process ended.
C1_Witness ==
    /\ pc = "done"
    /\ ret = <<1>>
    /\ Len(writes) = 2
    /\ writes[1].raised # <<>>
    /\ writes[1].left # <<>>

-----------------------------------------------------------------------------
(* C2 *)

\* C2 as stated: in every run in which the input path does not exist, the
\* output holds {"error": ..., "segments": []} and the process exits with 1,
\* whatever the imports before the existence check do.  Runs in which an
\* exception leaves main() are left aside.
C2_Original ==
    (pc = "done" /\ Parsed /\ uncaught = <<>> /\ ~fs0[args.input].exists) =>
        /\ OneCompleteDoc(Out)
        /\ "error" \in DOMAIN Out[1].doc
        /\ Out[1].doc.segments = <<>>
        /\ exitStatus = <<1>>

\* C2 amended: in every run in which the three imports return, the existence
\* check finds no input file and the write of the missing-input document
\* completes, the output holds {"error": "Input file does not exist: <input>",
\* "segments": []}, main returns 1 and the process exits with 1.
C2_Amended ==
    (existsResult = <<FALSE>> /\ writes # <<>> /\ writes[1].raised = <<>>) =>
        /\ Out = <<Complete(ExpectedMissingDoc)>>
        /\ Len(writes) = 1
        /\ ret = <<1>>
        /\ pc \in {"returned", "done"}
        /\ pc = "done" => exitStatus = <<1>>

C2_Witness ==
    /\ pc = "done"
    /\ existsResult = <<FALSE>>
    /\ Len(writes) = 1
    /\ writes[1].raised = <<>>
    /\ exitStatus = <<1>>

-----------------------------------------------------------------------------
(* C3 *)

Logged(msg) == \E i \in 1..Len(log) : log[i] = msg

\* What the handler is to leave for the exception message m.
HandlerEffect(m) ==
    /\ Logged("Error during transcription: " \o m)
    /\ Out = <<Complete(ExpectedErrorDoc(m))>>

\* C3 as stated: on any exception raised inside the try block the program
\* logs the error, writes the error document for its message and exits
\* with 1.
C3_Original ==
    (pc = "done" /\ exc # <<>>) =>
        /\ HandlerEffect(exc[1])
        /\ exitStatus = <<1>>

\* C3 amended: on any exception raised inside the try block the program logs
\* the error and exits with 1; when the handler's own write to the output
\* path completes, the output holds the error document for the exception's
\* message and main returns 1; when that write raises, the exception leaves
\* main().
C3_Amended ==
    (exc # <<>> /\ pc \in {"returned", "done"}) =>
        /\ Logged("Error during transcription: " \o exc[1])
        /\ pc = "done" => exitStatus = <<1>>
        /\ IF writes[Len(writes)].raised = <<>>
           THEN HandlerEffect(exc[1]) /\ ret = <<1>>
           ELSE ret = <<>> /\ uncaught = writes[Len(writes)].raised

\* A KeyError of the mapping loop, handled.
C3_Witness ==
    /\ pc = "done"
    /\ exc = <<"'start'">>
    /\ ret = <<1>>
    /\ Len(segments) = 1

-----------------------------------------------------------------------------
(* C4 *)

\* C4 as stated: when the input exists and the library returns a well-formed
\* result, the program writes {"segments": [...]} with element i mapped from
\* library segment i, and exits 0.  Runs in which an exception leaves main()
\* are left aside.
C4_Original ==
    (pc = "done" /\ uncaught = <<>> /\ result # <<>> /\ WellFormed(result[1])) =>
        /\ Out = <<Complete([segments |-> ExpectedSegments(result[1].segments)])>>
        /\ exitStatus = <<0>>

\* C4 amended: the same, when in addition the write of the success document
\* completes without raising.
C4_Amended ==
    (result # <<>> /\ WellFormed(result[1])
        /\ writes # <<>> /\ writes[1].raised = <<>>) =>
        /\ Out = <<Complete([segments |-> ExpectedSegments(result[1].segments)])>>
        /\ "error" \notin DOMAIN Out[1].doc
        /\ Len(writes) = 1
        /\ ret = <<0>>
        /\ pc = "done" => exitStatus = <<0>>

\* Two segments, the first with a field that is dropped, written and exited.
C4_Witness ==
    /\ pc = "done"
    /\ exitStatus = <<0>>
    /\ Len(result[1].segments) = 2
    /\ "id" \in DOMAIN result[1].segments[1]
    /\ result[1].segments[1] # result[1].segments[2]

-----------------------------------------------------------------------------
(* C5 *)

\* C5: load_model is called with the model named by --model, "tiny" when the
\* flag is omitted, and with device "cpu"; transcribe is called on the
\* --input path with fp16 disabled.
C5_Theorem ==
    /\ \A i \in 1..Len(loadCalls) :
          /\ loadCalls[i].name =
                (IF argv.model = <<>> THEN "tiny" ELSE argv.model[1])
          /\ loadCalls[i].device = "cpu"
    /\ \A i \in 1..Len(transcribeCalls) :
          /\ transcribeCalls[i].path = argv.input[1]
          /\ transcribeCalls[i].fp16 = FALSE

\* Both calls made in a run without --model.
C5_Witness ==
    /\ argv.model = <<>>
    /\ Len(loadCalls) = 1
    /\ Len(transcribeCalls) = 1

-----------------------------------------------------------------------------
(* C6 *)

\* C6: when the existence check finds no input file, load_model and
\* transcribe are never called, and the only write is the missing-input
\* document, followed by the handler's write when that write raised.
C6_Theorem ==
    existsResult = <<FALSE>> =>
        /\ loadCalls = <<>>
        /\ transcribeCalls = <<>>
        /\ model = <<>>
        /\ \A i \in 1..Len(writes) : writes[i].path = args.output
        /\ \/ writes = <<>>
           \/ /\ Len(writes) = 1
              /\ writes[1].doc = ExpectedMissingDoc
           \/ /\ Len(writes) = 2
              /\ writes[1].doc = ExpectedMissingDoc
              /\ writes[1].raised # <<>>
              /\ writes[2].doc = ExpectedErrorDoc(writes[1].raised[1])

\* The missing-input write raised and the handler wrote.
C6_Witness ==
    /\ existsResult = <<FALSE>>
    /\ pc = "done"
    /\ Len(writes) = 2

-----------------------------------------------------------------------------
(* C7 *)

\* C7: load_model is called at most once, transcribe at most once and only
\* after load_model returned, and once an exception has been raised no step
\* of the try block runs again and no further library call is made.
C7_Theorem ==
    /\ [](/\ Len(loadCalls) <= 1
          /\ Len(transcribeCalls) <= 1
          /\ transcribeCalls # <<>> => model # <<>>)
    /\ [][(exc # <<>> \/ uncaught # <<>>) =>
            /\ pc' \notin TrySteps
            /\ loadCalls' = loadCalls
            /\ transcribeCalls' = transcribeCalls]_vars

\* transcribe raised after one load, and the run ended.
C7_Witness ==
    /\ pc = "done"
    /\ exc # <<>>
    /\ Len(loadCalls) = 1
    /\ Len(transcribeCalls) = 1
    /\ result = <<>>

-----------------------------------------------------------------------------
(* C8 *)

\* C8: when main() returns, it returns 0 exactly when the output is a
\* document with `segments` and no `error`, and 1 exactly when the output
\* has an `error` key; the process exits with what main returned.
C8_Theorem ==
    ret # <<>> =>
        /\ OneCompleteDoc(Out)
        /\ ret = <<0>> <=>
              ("segments" \in DOMAIN Out[1].doc /\ "error" \notin DOMAIN Out[1].doc)
        /\ ret = <<1>> <=> "error" \in DOMAIN Out[1].doc
        /\ pc = "done" => exitStatus = ret

\* The handler wrote after a library call raised, and main returned.
C8_Witness ==
    /\ pc = "done"
    /\ ret = <<1>>
    /\ exc # <<>>
    /\ loadCalls # <<>>
    /\ Len(writes) = 1

-----------------------------------------------------------------------------
(* C9 *)

IsPartial(piece) == "complete" \in DOMAIN piece /\ ~piece.complete

\* C9: when the write of the success document raises and the handler's write
\* completes, the output holds exactly the complete error document and
\* nothing of what the failed write left.
C9_Theorem ==
    (/\ Len(writes) = 2
     /\ "error" \notin DOMAIN writes[1].doc
     /\ writes[1].raised # <<>>
     /\ writes[2].raised = <<>>) =>
        /\ Out = <<Complete(ExpectedErrorDoc(writes[1].raised[1]))>>
        /\ \A i \in 1..Len(Out) : ~IsPartial(Out[i])

\* The success write left a segment in the file before it raised.
C9_Witness ==
    /\ Len(writes) = 2
    /\ "error" \notin DOMAIN writes[1].doc
    /\ writes[1].raised # <<>>
    /\ Len(writes[1].left) = 1
    /\ IsPartial(writes[1].left[1])
    /\ Len(writes[1].left[1].doc.segments) = 1
    /\ writes[2].raised = <<>>

-----------------------------------------------------------------------------
(* C10 *)

\* C10 as stated: on every branch the content of the input path is left as
\* it was, also when --input and --output name the same path.
C10_Original ==
    Parsed => fs[args.input] = fs0[args.input]

\* C10 amended: when --input and --output name different paths, the input
\* path is left as it was on every branch.
C10_Amended ==
    (Parsed /\ args.input # args.output) =>
        /\ fs[args.input] = fs0[args.input]
        /\ \A i \in 1..Len(writes) : writes[i].path # args.input

\* A successful run that changed the output and not the input.
C10_Witness ==
    /\ pc = "done"
    /\ ret = <<0>>
    /\ args.input # args.output
    /\ fs[args.output] # fs0[args.output]
    /\ fs0[args.output].exists

=============================================================================
